---- MODULE Spec2Model ----
(***************************************************************************)
(* Verification page (src/app/page.tsx) and verification relay             *)
(* (src/app/api/verify/route.ts) of discord-recaptca-verifications.        *)
(*                                                                         *)
(* The page is modelled as an event loop: every pending setTimeout is an   *)
(* entry of timers (creation order, remaining milliseconds), every pending *)
(* external completion (config fetch, script load, readiness callback,     *)
(* execute promise) is an element of the bag pend.  A setState call is     *)
(* modelled as the assignment it requests.  Each run of the verification   *)
(* flow effect owns one closure variable isComponentMounted; the runs are   *)
(* indexed by the value of retryCount they were started with.              *)
(*                                                                         *)
(* The IP collection effect of the page (collectUserIP) and the location   *)
(* resolver of src/unnamed/part_000 (getIPLocation, collectUserData) are    *)
(* modelled by the service their loop is at; each has its own              *)
(* specification (SpecIp, SpecGeo).                                        *)
(***************************************************************************)
EXTENDS Bags, FiniteSets, Integers, Sequences, TLC

\* ---------------------------------------------------------------- bounds
\* largest value of retryCount explored (handleRetry is cut off there)
MaxRetry == 2

Attempts == 0..MaxRetry

\* ------------------------------------------------------ program constants
\* delays of the setTimeout calls of the page, in milliseconds
StartDelay == 500
SettleDelay == 1000
AnalyzingDelay == 1500
ValidatingDelayLate == AnalyzingDelay * 5
ValidatingDelay == 3500
ResultDelayShort == ValidatingDelay - StartDelay
ResultDelay == 5000
SimAnalyzingDelay == 1500
SimValidatingDelay == 3000
SimSuccessDelayEarly == SimAnalyzingDelay + StartDelay
SimSuccessDelay == 4500
CountdownDelay == 1000
CountdownStart == 5

DevKey == "development-mode"
NoKey == "null"
RealKey == "site-key"

\* the services collectUserIP tries, in order
IpServices == <<"api.ipify.org", "ipapi.co", "api.ip.sb">>

States == {"loading", "analyzing", "validating", "success", "error"}

\* what the page can read from the body of the /api/verify response
Results ==
  { [success |-> TRUE,  error |-> "", details |-> ""],
    [success |-> FALSE, error |-> "Verification score too low", details |-> ""],
    [success |-> FALSE, error |-> "", details |-> "Request timeout"],
    [success |-> FALSE, error |-> "", details |-> ""] }

NoResult == [success |-> FALSE, error |-> "", details |-> ""]

\* what a run knows of its confirmation call: nothing yet, a parsed body,
\* or a rejected fetch / unparsable body
NoResponse == [got |-> "none", res |-> NoResult]
Answered(r) == [got |-> "body", res |-> r]
Rejected == [got |-> "failed", res |-> NoResult]

VARIABLES
  state, errorDetails, retryCount, countdown,   \* useState fields
  siteKey, configLoaded, isDevelopment,
  isComponentMounted,    \* closure flag of each run of the flow effect
  timers,                \* pending setTimeout callbacks, creation order
  pend,                  \* bag of pending external completions
  scripts,               \* runs whose script element is in document.head
  grecaptcha,            \* window.grecaptcha is defined
  issued,                \* per run: number of fetch("/api/verify") calls
  outstanding,           \* per run: of these, how many have not settled
  response,              \* per run: what the confirmation call produced
  closed,                \* window.close() was called
  unmounted,             \* the component was unmounted
  ev,                    \* the last continuation that ran
  steps,                 \* per run: milestones of the challenge, in order
  tokens,                \* per run: the tokens execute resolved with
  sentIp,                \* per run: user_ip of the /api/verify body, "" while
                         \* no call was issued
  elapsed,               \* ms the current run has spent since it entered
                         \* verifyToken without reaching success or error
  \* --- the IP collection effect of the page ---
  ipIdx,                 \* index of the IP service awaited, 0 when finished
  userIP,                \* window.userIP, "" while undefined
  ipCalls,               \* the URLs fetched by collectUserIP, in order
  \* --- the relay, POST /api/verify (one request) ---
  env,                   \* process.env of the relay
  rpc,                   \* where the handler is suspended
  req,                   \* the request being handled
  calls,                 \* outbound fetch calls made so far, in order
  verdict,               \* what the challenge provider answered
  down,                  \* what the downstream /verified call produced
  webhook,               \* state of the fire-and-forget webhook call
  resp,                  \* the response returned, status 0 while none
  \* --- getIPLocation and collectUserData (src/unnamed/part_000) ---
  gOut,                  \* what each geolocation service will produce
  gIdx,                  \* index of the service the loop is at, 0 when left
  gInflight,             \* services whose fetch has not settled
  gInvoked,              \* services fetched so far, in order
  location,              \* what getIPLocation returned
  userData,              \* the location field set by collectUserData
  \* --- GET /api/get-ip and generateFingerprint (src/unnamed/part_000) ---
  headers,               \* the request headers GET reads
  answer,                \* the body GET returned, status 0 while none
  signal,                \* the joined fingerprint string, as char codes
  prints,                \* the results of the calls of the hash so far
  \* --- detectBrowser and detectDevice (src/unnamed/part_000) ---
  hasWindow,             \* typeof window !== "undefined"
  agent,                 \* navigator.userAgent, as the lexemes it holds
  touch,                 \* "ontouchstart" in window, navigator.maxTouchPoints
  browser,               \* what detectBrowser returned
  device                 \* what detectDevice returned

pageVars == <<state, errorDetails, retryCount, countdown, siteKey,
              configLoaded, isDevelopment, isComponentMounted, timers, pend,
              scripts, grecaptcha, issued, outstanding, response, closed,
              unmounted, ev, steps, tokens, sentIp, elapsed>>

ipVars == <<ipIdx, userIP, ipCalls>>

geoVars == <<gOut, gIdx, gInflight, gInvoked, location, userData>>

uaVars == <<hasWindow, agent, touch, browser, device>>

libVars == <<headers, answer, signal, prints, uaVars>>

relayVars == <<env, rpc, req, calls, verdict, down, webhook, resp>>

vars == <<pageVars, ipVars, relayVars, geoVars, libVars>>

\* ---------------------------------------------------------------- helpers
Timer(k, a, d, r) == [kind |-> k, att |-> a, rem |-> d, res |-> r]

Pending(k, a) == [kind |-> k, att |-> a]

Event(k, a) == [kind |-> k, att |-> a, live |-> isComponentMounted[a]]

RemoveAt(s, i) == SubSeq(s, 1, i - 1) \o SubSeq(s, i + 1, Len(s))

RECURSIVE Without(_, _)
Without(s, k) ==
  IF s = <<>> THEN <<>>
  ELSE IF Head(s).kind = k THEN Without(Tail(s), k)
       ELSE <<Head(s)>> \o Without(Tail(s), k)

RECURSIVE WithoutStart(_, _)
WithoutStart(s, a) ==
  IF s = <<>> THEN <<>>
  ELSE IF Head(s).kind = "start" /\ Head(s).att = a THEN WithoutStart(Tail(s), a)
       ELSE <<Head(s)>> \o WithoutStart(Tail(s), a)

HasExpired == \E i \in 1..Len(timers) : timers[i].rem = 0

\* timers fire in deadline order, equal deadlines in creation order
FirstExpired ==
  CHOOSE i \in 1..Len(timers) :
    timers[i].rem = 0 /\ \A j \in 1..(i - 1) : timers[j].rem # 0

MinRem ==
  CHOOSE m \in {timers[i].rem : i \in 1..Len(timers)} :
    \A i \in 1..Len(timers) : m <= timers[i].rem

\* The countdown effect (deps state, countdown): on a change its cleanup
\* clears the previous countdown timer, then the body may set a new one.
CountdownEffect(st, cd, tm) ==
  IF st = state /\ cd = countdown THEN tm
  ELSE Without(tm, "countdown") \o
       (IF st = "success" /\ cd > 0 /\ ~unmounted
          THEN <<Timer("countdown", 0, CountdownDelay, NoResult)>> ELSE <<>>)

CountdownClosesEarly(st, cd) ==
  (st # state \/ cd # countdown) /\ st = "success" /\ cd = 1 /\ ~unmounted
CountdownCloses(st, cd) ==
  (st # state \/ cd # countdown) /\ st = "success" /\ cd = 0 /\ ~unmounted

\* setState/setErrorDetails/setCountdown of one callback, then the render
\* and the countdown effect that follow it; tm are the timers left by the
\* callback itself
Render(st, msg, cd, tm) ==
  /\ state' = st
  /\ errorDetails' = msg
  /\ countdown' = cd
  /\ timers' = CountdownEffect(st, cd, tm)
  /\ closed' = (closed \/ CountdownCloses(st, cd))

NoRender(tm) ==
  /\ timers' = tm
  /\ UNCHANGED <<state, errorDetails, countdown, closed>>

\* body of the verification flow effect for the run started with rc
EffectBody(rc, key, tm) ==
  IF key = NoKey THEN tm
  ELSE tm \o <<Timer("start", rc, StartDelay, NoResult)>>

EffectFlag(rc, key, fl) ==
  IF key = NoKey THEN fl ELSE [fl EXCEPT ![rc] = TRUE]

\* ------------------------------------------------------------------- Init
\* collectUserIP is called by an effect that runs once, on mount
InitIp ==
  /\ ipIdx = 1
  /\ userIP = ""
  /\ ipCalls = <<IpServices[1]>>

InitPage ==
  /\ state = "loading"
  /\ errorDetails = ""
  /\ retryCount = 0
  /\ countdown = CountdownStart
  /\ siteKey = NoKey
  /\ configLoaded = FALSE
  /\ isDevelopment \in BOOLEAN
  /\ isComponentMounted = [a \in Attempts |-> FALSE]
  /\ timers = <<>>
  /\ pend = SetToBag({Pending("config", 0)})
  /\ scripts = {}
  /\ grecaptcha = FALSE
  /\ issued = [a \in Attempts |-> 0]
  /\ outstanding = [a \in Attempts |-> 0]
  /\ response = [a \in Attempts |-> NoResponse]
  /\ closed = FALSE
  /\ unmounted = FALSE
  /\ ev = [kind |-> "mount", att |-> 0, live |-> TRUE]
  /\ steps = [a \in Attempts |-> <<>>]
  /\ tokens = [a \in Attempts |-> <<>>]
  /\ sentIp = [a \in Attempts |-> ""]
  /\ elapsed = 0
  /\ InitIp

\* ------------------------------------------------------- liveness checks
\* the "if (isComponentMounted)" test at the head of continuation k of run a
LiveUnchecked(k, a) == IF k = "result" THEN TRUE ELSE isComponentMounted[a]
Live(k, a) == isComponentMounted[a]

\* ------------------------------------------------------ fetchConfig
\* outcome: the body carries a siteKey, carries none, or the fetch/parse throws
ConfigResolve(outcome) ==
  /\ BagIn(Pending("config", 0), pend)
  /\ pend' = pend (-) SetToBag({Pending("config", 0)})
  /\ LET key == IF outcome = "key" THEN RealKey
                ELSE IF isDevelopment THEN DevKey ELSE NoKey
         msg == IF outcome = "key" \/ isDevelopment THEN errorDetails
                ELSE IF outcome = "nokey"
                  THEN "Configuration error: No site key available"
                  ELSE "Failed to load verification configuration"
         run == IF unmounted THEN NoKey ELSE key
     IN /\ siteKey' = key
        /\ configLoaded' = TRUE
        /\ Render(state, msg, countdown, EffectBody(retryCount, run, timers))
        /\ isComponentMounted' = EffectFlag(retryCount, run, isComponentMounted)
  /\ ev' = [kind |-> "config", att |-> 0, live |-> TRUE]
  /\ UNCHANGED <<retryCount, isDevelopment, scripts, grecaptcha, issued,
                 outstanding, response, unmounted>>
  /\ UNCHANGED <<steps, tokens, sentIp, elapsed, ipVars, relayVars, geoVars, libVars>>

\* ------------------------------------------------------ passage of time
\* the current run has called verifyToken and shows neither success nor error
Verifying == issued[retryCount] > 0 /\ state \notin {"success", "error"}

Advance ==
  /\ timers # <<>>
  /\ ~HasExpired
  /\ timers' = [i \in 1..Len(timers) |->
                 [timers[i] EXCEPT !.rem = @ - MinRem]]
  /\ UNCHANGED <<state, errorDetails, retryCount, countdown, siteKey,
                 configLoaded, isDevelopment, isComponentMounted, pend,
                 scripts, grecaptcha, issued, outstanding, response, closed,
                 unmounted, ev>>
  /\ elapsed' = IF Verifying THEN elapsed + MinRem ELSE elapsed
  /\ UNCHANGED <<steps, tokens, sentIp, ipVars, relayVars, geoVars, libVars>>

\* ------------------------------------------------------ start timer
\* setTimeout(() => { if (isComponentMounted) loadRecaptcha() }, 500)
SimTimers(a) ==
  << Timer("simAnalyzing", a, SimAnalyzingDelay, NoResult),
     Timer("simValidating", a, SimValidatingDelay, NoResult),
     Timer("simSuccess", a, SimSuccessDelay, NoResult) >>

FireStart ==
  /\ HasExpired
  /\ LET i == FirstExpired
         t == timers[i]
         a == t.att
         tm == RemoveAt(timers, i)
     IN /\ t.kind = "start"
        /\ ev' = Event("start", a)
        /\ IF Live("start", a) /\ siteKey = DevKey
             THEN /\ timers' = tm \o SimTimers(a)
                  /\ UNCHANGED <<tokens, sentIp, elapsed, scripts, grecaptcha, pend>>
           ELSE IF Live("start", a)
             THEN /\ timers' = tm
                  /\ scripts' = {a}
                  /\ grecaptcha' = FALSE
                  /\ pend' = pend (+) SetToBag({Pending("script", a)})
           ELSE /\ timers' = tm
                /\ UNCHANGED <<tokens, sentIp, elapsed, scripts, grecaptcha, pend>>
  /\ UNCHANGED <<state, errorDetails, retryCount, countdown, siteKey,
                 configLoaded, isDevelopment, isComponentMounted, issued,
                 outstanding, response, closed, unmounted>>
  /\ UNCHANGED <<steps, tokens, sentIp, elapsed, ipVars, relayVars, geoVars, libVars>>

\* frame of a continuation that touches only React state and timers
FrameFlow ==
  UNCHANGED <<retryCount, siteKey, configLoaded, isDevelopment,
              isComponentMounted, unmounted, ipVars, relayVars, geoVars, libVars>>

ErrorOf(msg, tm) == Render("error", msg, countdown, tm)

\* ------------------------------------------------------ script element
OnloadExecutes(a) == Pending("ready2", a)
\* what script.onload registers when the handle is there: the callback of
\* window.grecaptcha.ready
OnloadContinuation(a) == Pending("ready", a)

\* script.onload; defines: the script defined window.grecaptcha
ScriptLoad(a, defines) ==
  /\ BagIn(Pending("script", a), pend)
  /\ ev' = Event("onload", a)
  /\ grecaptcha' = (grecaptcha \/ defines)
  /\ pend' = IF grecaptcha' /\ Live("onload", a)
               THEN (pend (-) SetToBag({Pending("script", a)}))
                      (+) SetToBag({OnloadContinuation(a)})
               ELSE pend (-) SetToBag({Pending("script", a)})
  /\ steps' = [steps EXCEPT ![a] = Append(@, "load")]
  /\ NoRender(timers)
  /\ FrameFlow
  /\ UNCHANGED <<tokens, sentIp, elapsed, scripts, issued, outstanding, response>>

\* script.onerror
ScriptError(a) ==
  /\ BagIn(Pending("script", a), pend)
  /\ ev' = Event("onerror", a)
  /\ pend' = pend (-) SetToBag({Pending("script", a)})
  /\ IF Live("onerror", a)
       THEN ErrorOf("Failed to load reCAPTCHA script", timers)
       ELSE NoRender(timers)
  /\ FrameFlow
  /\ UNCHANGED <<steps, tokens, sentIp, elapsed, scripts, grecaptcha, issued, outstanding, response>>

\* timers set by the readiness callback registered in script.onload
ReadyTimersTwice(a) ==
  << Timer("settle", a, SettleDelay, NoResult),
     Timer("settle", a, SettleDelay, NoResult) >>
ReadyTimers(a) == << Timer("settle", a, SettleDelay, NoResult) >>

\* callback of window.grecaptcha.ready registered in script.onload
Ready(a) ==
  /\ BagIn(Pending("ready", a), pend)
  /\ ev' = Event("ready", a)
  /\ pend' = pend (-) SetToBag({Pending("ready", a)})
  /\ steps' = [steps EXCEPT ![a] = Append(@, "ready")]
  /\ NoRender(IF Live("ready", a) THEN timers \o ReadyTimers(a) ELSE timers)
  /\ FrameFlow
  /\ UNCHANGED <<tokens, sentIp, elapsed, scripts, grecaptcha, issued, outstanding, response>>

\* ------------------------------------------------------ executeRecaptcha
\* settle timer: if (isComponentMounted) executeRecaptcha();
\* throws: window.grecaptcha.ready itself throws, caught by the try block
FireSettle(throws) ==
  /\ HasExpired
  /\ LET i == FirstExpired
         t == timers[i]
         a == t.att
         tm == RemoveAt(timers, i)
     IN /\ t.kind = "settle"
        /\ ev' = Event("settle", a)
        /\ steps' = [steps EXCEPT ![a] = Append(@, "settle")]
        /\ IF Live("settle", a) /\ grecaptcha /\ Live("executeRecaptcha", a)
             THEN IF throws
                    THEN /\ IF Live("catch", a)
                              THEN ErrorOf("reCAPTCHA error: ...", tm)
                              ELSE NoRender(tm)
                         /\ pend' = pend
                    ELSE /\ NoRender(tm)
                         /\ pend' = pend (+) SetToBag({Pending("ready2", a)})
             ELSE /\ NoRender(tm)
                  /\ pend' = pend
  /\ FrameFlow
  /\ UNCHANGED <<tokens, sentIp, elapsed, scripts, grecaptcha, issued, outstanding, response>>

\* callback of window.grecaptcha.ready registered by executeRecaptcha; it
\* calls window.grecaptcha.execute, which returns a promise ("promise") or
\* throws: into the try block of executeRecaptcha when ready ran the callback
\* synchronously ("caught"), into the library otherwise ("lost")
Ready2(a, exec) ==
  /\ BagIn(Pending("ready2", a), pend)
  /\ ev' = Event("ready2", a)
  /\ pend' = IF Live("ready2", a) /\ exec = "promise"
               THEN (pend (-) SetToBag({Pending("ready2", a)}))
                      (+) SetToBag({Pending("execute", a)})
               ELSE pend (-) SetToBag({Pending("ready2", a)})
  /\ steps' = IF Live("ready2", a)
                THEN [steps EXCEPT ![a] = Append(@, "execute")] ELSE steps
  /\ IF Live("ready2", a) /\ exec = "caught" /\ Live("catch", a)
       THEN ErrorOf("reCAPTCHA error: ...", timers)
       ELSE NoRender(timers)
  /\ FrameFlow
  /\ UNCHANGED <<tokens, sentIp, elapsed, scripts, grecaptcha, issued, outstanding, response>>

\* ------------------------------------------------------ verifyToken
\* timers set by verifyToken before it awaits the confirmation call
VerifyTokenTimersOptimistic(a) ==
  << Timer("analyzing", a, AnalyzingDelay, NoResult),
     Timer("validating", a, ValidatingDelay, NoResult),
     Timer("result", a, ResultDelay,
           [success |-> TRUE, error |-> "", details |-> ""]) >>
VerifyTokenTimers(a) ==
  << Timer("analyzing", a, AnalyzingDelay, NoResult),
     Timer("validating", a, ValidatingDelay, NoResult) >>

UserIpAsStored(stored) == stored
\* (window as any).userIP || "unknown"
UserIpSent(stored) == IF stored # "" THEN stored ELSE "unknown"

TokenOkAlways(token) == TRUE
\* the truthiness test of "isComponentMounted && token"
TokenOk(token) == token # ""

\* .then of window.grecaptcha.execute; token "" is the empty token
ExecuteResolve(a, token) ==
  /\ BagIn(Pending("execute", a), pend)
  /\ ev' = Event("token", a)
  /\ pend' = pend (-) SetToBag({Pending("execute", a)})
  /\ tokens' = [tokens EXCEPT ![a] = Append(@, token)]
  /\ IF Live("token", a) /\ TokenOk(token) /\ Live("verifyToken", a)
       THEN /\ NoRender(timers \o VerifyTokenTimers(a))
            /\ issued' = [issued EXCEPT ![a] = @ + 1]
            /\ outstanding' = [outstanding EXCEPT ![a] = @ + 1]
            /\ elapsed' = IF a = retryCount THEN 0 ELSE elapsed
            /\ sentIp' = [sentIp EXCEPT ![a] = UserIpSent(userIP)]
       ELSE IF Live("token", a) /\ ~TokenOk(token)
         THEN /\ ErrorOf("Failed to generate reCAPTCHA token", timers)
              /\ UNCHANGED <<issued, outstanding, elapsed, sentIp>>
       ELSE /\ NoRender(timers)
            /\ UNCHANGED <<issued, outstanding, elapsed, sentIp>>
  /\ FrameFlow
  /\ UNCHANGED <<steps, scripts, grecaptcha, response>>

\* .catch of window.grecaptcha.execute
ExecuteReject(a) ==
  /\ BagIn(Pending("execute", a), pend)
  /\ ev' = Event("executeCatch", a)
  /\ pend' = pend (-) SetToBag({Pending("execute", a)})
  /\ IF Live("executeCatch", a)
       THEN ErrorOf("reCAPTCHA execution failed: ...", timers)
       ELSE NoRender(timers)
  /\ FrameFlow
  /\ UNCHANGED <<steps, tokens, sentIp, elapsed, scripts, grecaptcha, issued, outstanding, response>>

\* the awaits of verifyToken complete: fetch resolved and the body parsed
FetchResolve(a, r) ==
  /\ outstanding[a] > 0
  /\ ev' = [kind |-> "fetched", att |-> a, live |-> TRUE]
  /\ outstanding' = [outstanding EXCEPT ![a] = @ - 1]
  /\ response' = [response EXCEPT ![a] = Answered(r)]
  /\ NoRender(timers \o <<Timer("result", a, ResultDelay, r)>>)
  /\ FrameFlow
  /\ UNCHANGED <<steps, tokens, sentIp, elapsed, scripts, grecaptcha, issued, pend>>

\* the fetch rejects or the body does not parse: the catch block
FetchFail(a) ==
  /\ outstanding[a] > 0
  /\ ev' = [kind |-> "fetched", att |-> a, live |-> TRUE]
  /\ outstanding' = [outstanding EXCEPT ![a] = @ - 1]
  /\ response' = [response EXCEPT ![a] = Rejected]
  /\ NoRender(timers \o <<Timer("netError", a, ResultDelay, NoResult)>>)
  /\ FrameFlow
  /\ UNCHANGED <<steps, tokens, sentIp, elapsed, scripts, grecaptcha, issued, pend>>

ErrorTextGeneric(r) == "Verification failed"
\* result.error || result.details || "Verification failed"
ErrorText(r) ==
  IF r.error # "" THEN r.error
  ELSE IF r.details # "" THEN r.details
  ELSE "Verification failed"

\* a timer whose callback only sets React state
FireFlowTimer(k) ==
  /\ HasExpired
  /\ LET i == FirstExpired
         t == timers[i]
         a == t.att
         tm == RemoveAt(timers, i)
     IN /\ t.kind = k
        /\ ev' = Event(k, a)
        /\ IF ~Live(k, a) THEN NoRender(tm)
           ELSE IF k = "analyzing" \/ k = "simAnalyzing"
             THEN Render("analyzing", errorDetails, countdown, tm)
           ELSE IF k = "validating" \/ k = "simValidating"
             THEN Render("validating", errorDetails, countdown, tm)
           ELSE IF k = "simSuccess"
             THEN Render("success", errorDetails, countdown, tm)
           ELSE IF k = "netError"
             THEN ErrorOf("Network error: ...", tm)
           ELSE IF t.res.success
             THEN Render("success", errorDetails, CountdownStart, tm)
           ELSE ErrorOf(ErrorText(t.res), tm)
  /\ FrameFlow
  /\ UNCHANGED <<steps, tokens, sentIp, elapsed, scripts, grecaptcha, issued, outstanding, response, pend>>

FireAnalyzing == FireFlowTimer("analyzing")
FireValidating == FireFlowTimer("validating")
FireResult == FireFlowTimer("result")
FireNetError == FireFlowTimer("netError")
FireSimAnalyzing == FireFlowTimer("simAnalyzing")
FireSimValidating == FireFlowTimer("simValidating")
FireSimSuccess == FireFlowTimer("simSuccess")

\* ------------------------------------------------------ countdown effect
\* setTimeout(() => setCountdown(countdown - 1), 1000)
FireCountdown ==
  /\ HasExpired
  /\ timers[FirstExpired].kind = "countdown"
  /\ ev' = [kind |-> "countdown", att |-> 0, live |-> TRUE]
  /\ Render(state, errorDetails, countdown - 1, RemoveAt(timers, FirstExpired))
  /\ FrameFlow
  /\ UNCHANGED <<steps, tokens, sentIp, elapsed, scripts, grecaptcha, issued, outstanding, response, pend>>

\* ------------------------------------------------------ user actions
RetryCountKept(prev) == prev
RetryCountReset(prev) == 0
\* setRetryCount((prev) => prev + 1)
RetryCountNext(prev) == prev + 1

RetryScriptsKept(present) == present
\* document.querySelectorAll('script[src*="recaptcha"]').forEach(remove)
RetryScripts(present) == {}

RetryAvailableAfterSuccess == state \in {"error", "success"}
\* {state === "error" && (... <button onClick={handleRetry}> ...)}
RetryAvailable == state = "error"

\* the Try Again button is rendered only while state is error; the click
\* handler, the render, the cleanup of the previous run of the flow effect
\* and the new run of the effect
HandleRetry ==
  /\ RetryAvailable
  /\ ~unmounted
  /\ retryCount < MaxRetry
  /\ ev' = [kind |-> "retry", att |-> retryCount + 1, live |-> TRUE]
  /\ retryCount' = RetryCountNext(retryCount)
  /\ grecaptcha' = FALSE
  /\ scripts' = RetryScripts(scripts)
  /\ isComponentMounted' =
       IF retryCount' = retryCount THEN isComponentMounted
       ELSE EffectFlag(retryCount', siteKey,
                       [isComponentMounted EXCEPT ![retryCount] = FALSE])
  /\ Render("loading", "", countdown,
            IF retryCount' = retryCount THEN timers
            ELSE EffectBody(retryCount', siteKey,
                            WithoutStart(timers, retryCount)))
  /\ UNCHANGED <<siteKey, configLoaded, isDevelopment, issued, outstanding,
                 response, pend, unmounted>>
  /\ elapsed' = 0
  /\ UNCHANGED <<steps, tokens, sentIp, ipVars, relayVars, geoVars, libVars>>

\* the Continue button is rendered only while state is success
HandleManualClose ==
  /\ state = "success"
  /\ ~unmounted
  /\ ~closed
  /\ closed' = TRUE
  /\ UNCHANGED <<state, errorDetails, retryCount, countdown, siteKey,
                 configLoaded, isDevelopment, isComponentMounted, timers,
                 pend, scripts, grecaptcha, issued, outstanding, response,
                 unmounted, ev>>
  /\ UNCHANGED <<steps, tokens, sentIp, elapsed, ipVars, relayVars, geoVars, libVars>>

\* the component unmounts: the cleanups of its effects run
Unmount ==
  /\ ~unmounted
  /\ unmounted' = TRUE
  /\ ev' = [kind |-> "unmount", att |-> retryCount, live |-> TRUE]
  /\ isComponentMounted' = [isComponentMounted EXCEPT ![retryCount] = FALSE]
  /\ timers' = Without(WithoutStart(timers, retryCount), "countdown")
  /\ UNCHANGED <<state, errorDetails, retryCount, countdown, siteKey,
                 configLoaded, isDevelopment, pend, scripts, grecaptcha,
                 issued, outstanding, response, closed>>
  /\ UNCHANGED <<steps, tokens, sentIp, elapsed, ipVars, relayVars, geoVars, libVars>>

\* ------------------------------------------------------ collectUserIP
\* the address a service or /api/get-ip reports
Address == "203.0.113.7"

\* whether an outcome of one iteration leaves the inner try block as an
\* exception: the inner catch handles every throw of fetch and of json(),
\* a body without address falls out of the if, and nothing else is awaited
EscapesInnerTry(outcome) == FALSE

\* the awaits of collectUserIP settle.  outcome: the body carries an address
\* ("ip"), carries none ("noip"), or fetch or json() throws ("fail").
\* ipIdx beyond the list stands for the fetch of /api/get-ip, which only
\* the handler of the outer try block issues.
IpSettle(outcome) ==
  /\ ipIdx > 0
  /\ IF ipIdx > Len(IpServices)
       THEN /\ userIP' = IF outcome = "ip" THEN Address ELSE userIP
            /\ ipIdx' = 0
            /\ ipCalls' = ipCalls
     ELSE IF EscapesInnerTry(outcome)
       THEN /\ ipIdx' = Len(IpServices) + 1
            /\ ipCalls' = Append(ipCalls, "/api/get-ip")
            /\ userIP' = userIP
     ELSE IF outcome = "ip"
       THEN /\ userIP' = Address
            /\ ipIdx' = 0
            /\ ipCalls' = ipCalls
     ELSE IF ipIdx < Len(IpServices)
       THEN /\ ipIdx' = ipIdx + 1
            /\ ipCalls' = Append(ipCalls, IpServices[ipIdx + 1])
            /\ userIP' = userIP
     ELSE /\ ipIdx' = 0
          /\ UNCHANGED <<userIP, ipCalls>>
  /\ UNCHANGED <<pageVars, relayVars, geoVars, libVars>>

\* ============================================= getIPLocation (part_000)
\* the services of getIPLocation, in list order
Services == <<"ipapi.co", "api.ipgeolocation.io", "freeipapi.com">>

Providers == 1..Len(Services)

\* what one service does: the fetch is aborted after 5 s ("timeout"), the
\* fetch rejects ("rejected"), the status is not 2xx ("status"), json()
\* throws ("badjson"), the parser throws ("adapter"), or the parser returns
\* a location with ("ok") or without ("okNoZone") a timezone
GeoOutcomes ==
  {"timeout", "rejected", "status", "badjson", "adapter", "ok", "okNoZone"}

\* Intl.DateTimeFormat().resolvedOptions().timeZone
LocalZone == "local-zone"

Place(tz, co, re, ci) ==
  [timezone |-> tz, country |-> co, region |-> re, city |-> ci]

\* the fallback object returned after the loop
Fallback == Place(LocalZone, "Unknown", "Unknown", "Unknown")

\* service.parser(data) of service i, then the timezone default
Located(i, o) ==
  Place(IF o = "okNoZone" THEN LocalZone ELSE <<"zone1", "zone2", "zone3">>[i],
        <<"country1", "country2", "country3">>[i],
        <<"region1", "region2", "region3">>[i],
        <<"city1", "city2", "city3">>[i])

NoPlace == Place("", "", "", "")

Returned(v) == [status |-> "returned", value |-> v]

NoLocation == [status |-> "none", value |-> NoPlace]

\* response.ok held, json() and the parser returned
ReturnsIgnoringStatus(o) == o \in {"ok", "okNoZone", "status"}
Returns(o) == o \in {"ok", "okNoZone"}

\* where the loop goes after service i returned a location
AfterReturnLastWins(i) == IF i < Len(Services) THEN i + 1 ELSE 0
AfterReturn(i) == 0

\* what getIPLocation settles with when the loop is exhausted
ExhaustedRejects == [status |-> "rejected", value |-> NoPlace]
Exhausted == Returned(Fallback)

GeoIdle ==
  /\ gOut = [i \in Providers |-> "ok"]
  /\ gIdx = 0
  /\ gInflight = {}
  /\ gInvoked = <<>>
  /\ location = NoLocation
  /\ userData = NoLocation

\* collectUserData has called getIPLocation, which is at the head of its loop
InitGeo ==
  /\ gOut \in [Providers -> GeoOutcomes]
  /\ gIdx = 1
  /\ gInflight = {}
  /\ gInvoked = <<>>
  /\ location = NoLocation
  /\ userData = NoLocation

\* fetch(service.url, { signal: AbortSignal.timeout(5000) })
GeoFetch ==
  /\ gIdx \in Providers
  /\ gIdx \notin gInflight
  /\ gInflight' = gInflight \cup {gIdx}
  /\ gInvoked' = Append(gInvoked, gIdx)
  /\ UNCHANGED <<gOut, gIdx, location, userData, pageVars, ipVars, relayVars, libVars>>

\* the awaits of one iteration settle, up to the next await or the return
GeoSettle ==
  /\ gIdx \in gInflight
  /\ gInflight' = gInflight \ {gIdx}
  /\ LET i == gIdx
         o == gOut[i]
         nxt == IF Returns(o) THEN AfterReturn(i)
                ELSE IF i < Len(Services) THEN i + 1 ELSE 0
     IN /\ gIdx' = nxt
        /\ location' = IF Returns(o) THEN Returned(Located(i, o))
                       ELSE IF nxt = 0 THEN Exhausted
                       ELSE location
  /\ UNCHANGED <<gOut, gInvoked, userData, pageVars, ipVars, relayVars, libVars>>

\* userData.location = await getIPLocation(), with its catch block
GeoCollect ==
  /\ gIdx = 0
  /\ location.status # "none"
  /\ userData.status = "none"
  /\ userData' = IF location.status = "rejected" THEN Returned(Fallback)
                 ELSE location
  /\ UNCHANGED <<gOut, gIdx, gInflight, gInvoked, location, pageVars, ipVars,
                 relayVars, libVars>>

\* ================================================ GET /api/get-ip
\* Header values are sequences of lexemes: "," and " ", the IPv6-mapped
\* prefix "::ffff:" (7 characters) and opaque address texts.
MaxHeaderLen == 2

MaxForwardedLen == 3

RECURSIVE SeqsUpTo(_, _)
SeqsUpTo(S, n) ==
  IF n = 0 THEN {<<>>}
  ELSE LET shorter == SeqsUpTo(S, n - 1)
       IN shorter \cup {Append(q, x) : q \in shorter, x \in S}

Absent == [present |-> FALSE, val |-> <<>>]

Header(v) == [present |-> TRUE, val |-> v]

\* a header value as the || chain sees it: null and "" are falsy
Truthy(h) == h.present /\ h.val # <<>>

RECURSIVE TrimStart(_)
TrimStart(v) ==
  IF v # <<>> /\ Head(v) = " " THEN TrimStart(Tail(v)) ELSE v

RECURSIVE TrimEnd(_)
TrimEnd(v) ==
  IF v # <<>> /\ v[Len(v)] = " " THEN TrimEnd(SubSeq(v, 1, Len(v) - 1)) ELSE v

\* String.prototype.trim
Trim(v) == TrimEnd(TrimStart(v))

RECURSIVE UpToComma(_)
UpToComma(v) ==
  IF v = <<>> \/ Head(v) = "," THEN <<>>
  ELSE <<Head(v)>> \o UpToComma(Tail(v))

FirstEntryUntrimmed(v) == UpToComma(v)
\* forwarded.split(",")[0].trim()
FirstEntry(v) == Trim(UpToComma(v))

\* cfConnectingIP || (forwarded ? first entry : null) || realIP || "unknown"
PickIp(h) ==
  IF Truthy(h.cf) THEN h.cf.val
  ELSE IF Truthy(h.forwarded) /\ FirstEntry(h.forwarded.val) # <<>>
    THEN FirstEntry(h.forwarded.val)
  ELSE IF Truthy(h.real) THEN h.real.val
  ELSE <<"unknown">>

\* if (ip.startsWith("::ffff:")) ip = ip.substring(7)
StripMapped(ip) ==
  IF ip # <<>> /\ Head(ip) = "::ffff:" THEN Tail(ip) ELSE ip

PickSource(h) ==
  IF Truthy(h.cf) THEN "cloudflare"
  ELSE IF Truthy(h.forwarded) THEN "forwarded"
  ELSE IF Truthy(h.real) THEN "real-ip"
  ELSE "unknown"

NoAnswer == [status |-> 0, ip |-> <<>>, source |-> ""]

HeaderValues(addrs, n) ==
  {Absent} \cup {Header(v) : v \in SeqsUpTo({" ", "::ffff:"} \cup addrs, n)}

ForwardedValues ==
  {Absent} \cup
  {Header(v) : v \in SeqsUpTo({",", " ", "::ffff:", "198.51.100.2", "10.0.0.1"},
                              MaxForwardedLen)}

InitGetIp ==
  /\ headers \in [cf : HeaderValues({"203.0.113.7"}, MaxHeaderLen),
                   forwarded : ForwardedValues,
                   real : HeaderValues({"192.0.2.9"}, MaxHeaderLen)]
  /\ answer = NoAnswer

\* GET: NextResponse.json({ ip, source })
GetIp ==
  /\ answer.status = 0
  /\ answer' = [status |-> 200, ip |-> StripMapped(PickIp(headers)),
                source |-> PickSource(headers)]
  /\ UNCHANGED <<headers, signal, prints, uaVars, pageVars, ipVars, relayVars, geoVars>>

\* ================================================ generateFingerprint
MaxSignalLen == 5

\* char codes the joined string is built from: "A", "|" and U+FFFF
Codes == {65, 124, 65535}

\* A 32-bit integer is kept as its two's complement bits, in two 16-bit
\* halves: the value of a number after a bitwise operator (ToInt32).
Word(hi, lo) == [hi |-> hi, lo |-> lo]

Zero == Word(0, 0)

\* hash << 5
Shl5(w) ==
  LET l == w.lo * 32
  IN Word((w.hi * 32 + (l \div 65536)) % 65536, l % 65536)

\* a - b, as the bits of the difference
Minus(a, b) ==
  LET l == a.lo - b.lo
      borrow == IF l < 0 THEN 1 ELSE 0
  IN Word((a.hi - b.hi - borrow + 65536) % 65536, (l + 65536) % 65536)

\* a + c for a char code c, as the bits of the sum
Plus(a, c) ==
  LET l == a.lo + c
  IN Word((a.hi + (l \div 65536)) % 65536, l % 65536)

HashStartCarried(previous) == previous
\* let hash = 0
HashStart(previous) == Zero

\* hash = (hash << 5) - hash + char; hash = hash & hash
HashStep(h, c) == Plus(Minus(Shl5(h), h), c)

RECURSIVE HashFrom(_, _)
HashFrom(h, str) ==
  IF str = <<>> THEN h ELSE HashFrom(HashStep(h, Head(str)), Tail(str))

\* the sign bit of the 32-bit integer
Negative(w) == w.hi >= 32768

\* Math.abs(hash): the magnitude, which is 2^31 for the least integer
Abs(w) == IF Negative(w) THEN Minus(Zero, w) ELSE w

HexDigits == <<"0", "1", "2", "3", "4", "5", "6", "7", "8", "9",
               "a", "b", "c", "d", "e", "f">>

RECURSIVE Hex(_)
Hex(n) ==
  IF n < 16 THEN HexDigits[n + 1]
  ELSE Hex(n \div 16) \o HexDigits[(n % 16) + 1]

\* the four hex digits of a 16-bit half
Hex4(n) ==
  HexDigits[(n \div 4096) + 1] \o HexDigits[((n \div 256) % 16) + 1]
    \o HexDigits[((n \div 16) % 16) + 1] \o HexDigits[(n % 16) + 1]

\* Number.prototype.toString(16) of a magnitude
ToHex(w) == IF w.hi = 0 THEN Hex(w.lo) ELSE Hex(w.hi) \o Hex4(w.lo)

InitHash ==
  /\ signal \in SeqsUpTo(Codes, MaxSignalLen)
  /\ prints = <<>>

\* one call of the hash of generateFingerprint on the joined string
Fingerprint ==
  /\ Len(prints) < 2
  /\ LET previous == IF prints = <<>> THEN Zero ELSE prints[Len(prints)].hash
         h == HashFrom(HashStart(previous), signal)
     IN prints' = Append(prints, [hash |-> h, text |-> ToHex(Abs(h))])
  /\ UNCHANGED <<headers, answer, signal, uaVars, pageVars, ipVars, relayVars, geoVars>>

\* ================================== detectBrowser and detectDevice
\* the lexemes a user agent string of the model is made of, in the order
\* they stand in the string
UaOrder ==
  << "Opera/9.80", "Android 14", "android", "iPad", "Samsung", "Tablet",
     "Chrome/120.0", "Version/17.2", "Mobile", "Safari/537.36",
     "Firefox/121.0", "Edg/120.0", "OPR/106.0" >>

Lexemes == {UaOrder[i] : i \in 1..Len(UaOrder)}

\* the texts the code searches for that occur in a lexeme
Needles(l) ==
  CASE l = "Opera/9.80" -> {"Opera"}
    [] l = "Android 14" -> {"Android"}
    [] l = "iPad" -> {"iPad"}
    [] l = "Samsung" -> {"Samsung"}
    [] l = "Tablet" -> {"Tablet"}
    [] l = "Chrome/120.0" -> {"Chrome"}
    [] l = "Mobile" -> {"Mobi"}
    [] l = "Safari/537.36" -> {"Safari"}
    [] l = "Firefox/121.0" -> {"Firefox"}
    [] l = "Edg/120.0" -> {"Edg"}
    [] l = "OPR/106.0" -> {"OPR"}
    [] OTHER -> {}

\* the same with letter case ignored (the i flag), in lower case
NeedlesFolded(l) ==
  CASE l = "Android 14" -> {"android"}
    [] l = "android" -> {"android"}
    [] l = "iPad" -> {"ipad"}
    [] l = "Tablet" -> {"tablet"}
    [] l = "Mobile" -> {"mobi"}
    [] OTHER -> {}

\* userAgent.includes(needle)
Includes(ua, needle) == \E l \in ua : needle \in Needles(l)

\* /a|b/i.test(userAgent)
TestFolded(ua, alternatives) ==
  \E l \in ua : NeedlesFolded(l) \cap alternatives # {}

\* the digits.digits that follow "name/" in a lexeme, "" when there are none
VersionIn(l, name) ==
  CASE l = "Opera/9.80" /\ name = "Opera" -> "9.80"
    [] l = "Chrome/120.0" /\ name = "Chrome" -> "120.0"
    [] l = "Version/17.2" /\ name = "Version" -> "17.2"
    [] l = "Firefox/121.0" /\ name = "Firefox" -> "121.0"
    [] l = "Edg/120.0" /\ name = "Edg" -> "120.0"
    [] l = "OPR/106.0" /\ name = "OPR" -> "106.0"
    [] OTHER -> ""

\* userAgent.match(/(n1|n2)\/(\d+\.\d+)/): the first match in the string
Match(ua, names) ==
  LET hits == {i \in 1..Len(UaOrder) :
                 /\ UaOrder[i] \in ua
                 /\ \E n \in names : VersionIn(UaOrder[i], n) # ""}
      first == CHOOSE i \in hits : \A j \in hits : i <= j
  IN IF hits = {} THEN "Unknown"
     ELSE CHOOSE v \in {VersionIn(UaOrder[first], n) : n \in names} : v # ""

Browser(st, name, version) ==
  [status |-> st, name |-> name, version |-> version]

\* the browser name and version chain of detectBrowser
BrowserOf(ua) ==
  IF Includes(ua, "Chrome") /\ ~Includes(ua, "Edg")
    THEN Browser("set", "Chrome", Match(ua, {"Chrome"}))
  ELSE IF Includes(ua, "Firefox")
    THEN Browser("set", "Firefox", Match(ua, {"Firefox"}))
  ELSE IF Includes(ua, "Safari") /\ ~Includes(ua, "Chrome")
    THEN Browser("set", "Safari", Match(ua, {"Version"}))
  ELSE IF Includes(ua, "Edg")
    THEN Browser("set", "Edge", Match(ua, {"Edg"}))
  ELSE IF Includes(ua, "Opera") \/ Includes(ua, "OPR")
    THEN Browser("set", "Opera", Match(ua, {"Opera", "OPR"}))
  ELSE Browser("set", "Unknown", "Unknown")

TouchCapableByPoints(t) == t.maxTouchPoints > 0
\* "ontouchstart" in window || navigator.maxTouchPoints > 0
TouchCapable(t) == t.ontouchstart \/ t.maxTouchPoints > 0

\* the device type chain of detectDevice
DeviceClass(ua) ==
  IF TestFolded(ua, {"mobi", "android"}) THEN "mobile"
  ELSE IF TestFolded(ua, {"tablet", "ipad"}) THEN "tablet"
  ELSE "desktop"

\* the vendor chain of detectDevice
Vendor(ua) ==
  IF Includes(ua, "iPhone") \/ Includes(ua, "iPad") \/ Includes(ua, "Mac")
    THEN "Apple"
  ELSE IF Includes(ua, "Samsung") THEN "Samsung"
  ELSE IF Includes(ua, "Huawei") THEN "Huawei"
  ELSE IF Includes(ua, "Xiaomi") THEN "Xiaomi"
  ELSE IF Includes(ua, "OnePlus") THEN "OnePlus"
  ELSE "Unknown"

Device(st, class, vendor, isTouch) ==
  [status |-> st, type |-> class, isMobile |-> class = "mobile",
   isTablet |-> class = "tablet", isDesktop |-> class = "desktop",
   vendor |-> vendor, isTouchDevice |-> isTouch]

\* nothing returned yet
NotDetected == "none"
\* return {}
NoBrowser == Browser("empty", "", "")
NoDevice == Device("empty", "", "", FALSE)

NoTouch == [ontouchstart |-> FALSE, maxTouchPoints |-> 0]

TouchPoints == {0, 5}

InitAgent ==
  /\ hasWindow \in BOOLEAN
  /\ agent \in IF hasWindow THEN SUBSET Lexemes ELSE {{}}
  /\ touch \in IF hasWindow
                 THEN [ontouchstart : BOOLEAN, maxTouchPoints : TouchPoints]
                 ELSE {NoTouch}
  /\ browser = Browser(NotDetected, "", "")
  /\ device = Device(NotDetected, "", "", FALSE)

UaIdle ==
  /\ hasWindow = FALSE
  /\ agent = {}
  /\ touch = NoTouch
  /\ browser = Browser(NotDetected, "", "")
  /\ device = Device(NotDetected, "", "", FALSE)

\* detectBrowser(); the fields copied from navigator as they are
\* (language, languages, cookieEnabled, doNotTrack, onLine) are left out
DetectBrowser ==
  /\ browser.status = NotDetected
  /\ browser' = IF hasWindow THEN BrowserOf(agent) ELSE NoBrowser
  /\ UNCHANGED <<hasWindow, agent, touch, device, headers, answer, signal,
                 prints, pageVars, ipVars, relayVars, geoVars>>

\* detectDevice()
DetectDevice ==
  /\ device.status = NotDetected
  /\ device' = IF hasWindow
                 THEN Device("set", DeviceClass(agent), Vendor(agent),
                             TouchCapable(touch))
                 ELSE NoDevice
  /\ UNCHANGED <<hasWindow, agent, touch, browser, headers, answer, signal,
                 prints, pageVars, ipVars, relayVars, geoVars>>

LibIdle ==
  /\ headers = [cf |-> Absent, forwarded |-> Absent, real |-> Absent]
  /\ answer = NoAnswer
  /\ signal = <<>>
  /\ prints = <<>>
  /\ UaIdle

\* ======================================================== the relay
\* scores are counted in millionths: 500000 stands for 0.5
threshold == 500000

Scores == {0, 200000, 499999, 500000, 500001, 900000}

\* an Authorization header: its first seven characters and the rest
AuthHeaders ==
  { [prefix |-> "", rest |-> ""],
    [prefix |-> "Bearer ", rest |-> "secret"],
    [prefix |-> "Bearer ", rest |-> "wrong"],
    [prefix |-> "Bearer ", rest |-> ""],
    [prefix |-> "bearer ", rest |-> "secret"],
    [prefix |-> "secret", rest |-> ""] }

Envs ==
  [ DISCORD_API_KEY : {"", "secret"},
    RECAPTCHA_SECRET_KEY : {"", "recaptcha-secret"},
    DISCORD_WEBHOOK_URL : {"", "https://discord/webhook"} ]

\* json: request.json() succeeds; id and captcha "" stand for a missing field
Requests ==
  [ auth : AuthHeaders, json : BOOLEAN, id : {"", "42"},
    captcha : {"", "03A-token"} ]

NoScore == [present |-> FALSE, value |-> 0]
Score(x) == [present |-> TRUE, value |-> x]

\* answer of the siteverify call: the fetch rejects, or answers with a
\* status (ok or not) and a body that parses or not
Verdicts ==
  { [net |-> "reject", ok |-> FALSE, json |-> FALSE, success |-> FALSE,
     score |-> NoScore, codes |-> {}],
    [net |-> "answer", ok |-> FALSE, json |-> TRUE, success |-> FALSE,
     score |-> NoScore, codes |-> {}],
    [net |-> "answer", ok |-> TRUE, json |-> FALSE, success |-> FALSE,
     score |-> NoScore, codes |-> {}] }
  \cup
  { [net |-> "answer", ok |-> TRUE, json |-> TRUE, success |-> FALSE,
     score |-> sc, codes |-> c] :
       sc \in {NoScore, Score(900000)},
       c \in { {}, {"invalid-input-secret"}, {"missing-input-secret"},
               {"timeout-or-duplicate"},
               {"invalid-input-response", "timeout-or-duplicate"},
               {"missing-input-response"}, {"browser-error"},
               {"bad-request"} } }
  \cup
  { [net |-> "answer", ok |-> TRUE, json |-> TRUE, success |-> TRUE,
     score |-> sc, codes |-> {}] :
       sc \in {NoScore} \cup {Score(x) : x \in Scores} }

NoVerdict ==
  [net |-> "none", ok |-> FALSE, json |-> FALSE, success |-> FALSE,
   score |-> NoScore, codes |-> {}]

\* substrings the error-mapping code looks for in an error message, as
\* they may occur in a text sent by the downstream service
TextMarks == { {}, {"timeout"}, {"500"}, {"400"}, {"ECONNREFUSED"} }

\* outcome of Promise.race([fetch(/verified), 10 s timeout]) and of reading
\* the body: text holds the substrings of the error text (non-2xx) or of
\* the body's message field (2xx)
Downs ==
  { [kind |-> "timeout", status |-> 0, json |-> FALSE, success |-> FALSE,
     text |-> {}],
    [kind |-> "refused", status |-> 0, json |-> FALSE, success |-> FALSE,
     text |-> {}] }
  \cup
  { [kind |-> "response", status |-> st, json |-> FALSE, success |-> FALSE,
     text |-> tx] : st \in {400, 401, 404, 500, 503}, tx \in TextMarks }
  \cup
  { [kind |-> "response", status |-> st, json |-> j, success |-> su,
     text |-> tx] :
       st \in {200, 201}, j \in BOOLEAN, su \in BOOLEAN, tx \in TextMarks }

NoDown ==
  [kind |-> "none", status |-> 0, json |-> FALSE, success |-> FALSE,
   text |-> {}]

Response(st, su, er) == [status |-> st, success |-> su, error |-> er]
NoResp == Response(0, FALSE, "")

AuthorizedByScheme(h, expected) == h.prefix = "Bearer "
\* authHeader.startsWith("Bearer ") && authHeader.slice(7) === expectedToken
Authorized(h, expected) == h.prefix = "Bearer " /\ h.rest = expected

PreCheckIdFirst(e, r) ==
  IF e.DISCORD_API_KEY = ""
    THEN Response(500, FALSE, "Server configuration error")
  ELSE IF ~Authorized(r.auth, e.DISCORD_API_KEY)
    THEN Response(401, FALSE, "Unauthorized")
  ELSE IF ~r.json
    THEN Response(500, FALSE, "Internal server error")
  ELSE IF r.id = ""
    THEN Response(400, FALSE, "No user ID provided")
  ELSE IF r.captcha = ""
    THEN Response(400, FALSE, "No captcha token provided")
  ELSE IF e.RECAPTCHA_SECRET_KEY = ""
    THEN Response(500, FALSE, "Server configuration error")
  ELSE NoResp
\* the checks made before the challenge provider is called; NoResp: all passed
PreCheck(e, r) ==
  IF e.DISCORD_API_KEY = ""
    THEN Response(500, FALSE, "Server configuration error")
  ELSE IF ~Authorized(r.auth, e.DISCORD_API_KEY)
    THEN Response(401, FALSE, "Unauthorized")
  ELSE IF ~r.json
    THEN Response(500, FALSE, "Internal server error")
  ELSE IF r.captcha = ""
    THEN Response(400, FALSE, "No captcha token provided")
  ELSE IF r.id = ""
    THEN Response(400, FALSE, "No user ID provided")
  ELSE IF e.RECAPTCHA_SECRET_KEY = ""
    THEN Response(500, FALSE, "Server configuration error")
  ELSE NoResp

ProviderRejectsOnCodes(v) == ~v.success /\ v.codes # {}
\* if (!recaptchaData.success)
ProviderRejects(v) == ~v.success

RejectMessage(codes) ==
  IF "missing-input-secret" \in codes
    THEN "Server configuration error: missing secret"
  ELSE IF "invalid-input-secret" \in codes
    THEN "Server configuration error: invalid secret"
  ELSE IF "missing-input-response" \in codes
    THEN "Missing reCAPTCHA response"
  ELSE IF "invalid-input-response" \in codes
    THEN "Invalid reCAPTCHA response"
  ELSE IF "browser-error" \in codes
    THEN "Browser compatibility issue - please try refreshing"
  ELSE IF "timeout-or-duplicate" \in codes
    THEN "reCAPTCHA expired - please try again"
  ELSE "reCAPTCHA verification failed"

\* const score = recaptchaData.score || 0
ScoreOf(v) == IF v.score.present /\ v.score.value # 0 THEN v.score.value ELSE 0

ScoreTooLowInclusive(v) == ScoreOf(v) <= threshold
\* if (score < threshold)
ScoreTooLow(v) == ScoreOf(v) < threshold

\* response.ok
HttpOk(st) == 200 <= st /\ st <= 299

DownstreamOkByStatus(d) == d.kind = "response" /\ HttpOk(d.status) /\ d.json
\* the try block around the downstream call completes without throwing
DownstreamOk(d) ==
  d.kind = "response" /\ HttpOk(d.status) /\ d.json /\ d.success

\* substrings of expressError.message
ErrorMarks(d) ==
  IF d.kind = "timeout" THEN {"timeout"}
  ELSE IF d.kind = "refused" THEN {"fetch failed"}
  ELSE IF ~HttpOk(d.status)
    THEN d.text \cup (IF d.status = 500 THEN {"500"} ELSE {})
                \cup (IF d.status = 400 THEN {"400"} ELSE {})
  ELSE IF ~d.json THEN {}
  ELSE d.text

DownstreamMessage(m) ==
  IF "timeout" \in m
    THEN "Discord server is taking too long to respond. Please try again."
  ELSE IF "ECONNREFUSED" \in m \/ "fetch failed" \in m
    THEN "Cannot connect to Discord server. Please try again later."
  ELSE IF "500" \in m
    THEN "Discord server encountered an error. Please try again."
  ELSE IF "400" \in m
    THEN "Invalid verification request. Please try again."
  ELSE "Failed to complete verification with Discord server"

PageIdle ==
  /\ InitPage
  /\ isDevelopment = FALSE

InitRelay ==
  /\ PageIdle
  /\ GeoIdle
  /\ LibIdle
  /\ env \in Envs
  /\ rpc = "idle"
  /\ req \in Requests
  /\ calls = <<>>
  /\ verdict = NoVerdict
  /\ down = NoDown
  /\ webhook = "none"
  /\ resp = NoResp

\* POST, from the authorization check to the call of the challenge provider
Receive ==
  /\ rpc = "idle"
  /\ LET r == PreCheck(env, req)
     IN IF r # NoResp
          THEN /\ resp' = r
               /\ rpc' = "done"
               /\ calls' = calls
          ELSE /\ resp' = resp
               /\ rpc' = "provider"
               /\ calls' = Append(calls, "siteverify")
  /\ UNCHANGED <<env, req, verdict, down, webhook, pageVars, ipVars, geoVars, libVars>>

\* POST, from the provider's answer to the downstream call
ProviderAnswer(v) ==
  /\ rpc = "provider"
  /\ verdict' = v
  /\ IF v.net = "reject" \/ ~v.ok \/ ~v.json
       THEN /\ resp' = Response(500, FALSE, "Internal server error")
            /\ rpc' = "done"
            /\ calls' = calls
     ELSE IF ProviderRejects(v)
       THEN /\ resp' = Response(400, FALSE, RejectMessage(v.codes))
            /\ rpc' = "done"
            /\ calls' = calls
     ELSE IF ScoreTooLow(v)
       THEN /\ resp' = Response(400, FALSE, "Verification score too low")
            /\ rpc' = "done"
            /\ calls' = calls
     ELSE /\ resp' = resp
          /\ rpc' = "downstream"
          /\ calls' = Append(calls, "verified")
  /\ UNCHANGED <<env, req, down, webhook, pageVars, ipVars, geoVars, libVars>>

\* the response returned after the webhook block; w: the block was skipped
\* ("none"), threw inside its try ("threw"), or started the call ("pending")
AfterWebhookEscapes(w) ==
  IF w = "threw" THEN Response(500, FALSE, "Internal server error")
  ELSE Response(200, TRUE, "")
AfterWebhook(w) == Response(200, TRUE, "")

\* POST, from the outcome of the downstream call to the response;
\* wthrows: building or starting the webhook call throws synchronously
DownstreamAnswer(d, wthrows) ==
  /\ rpc = "downstream"
  /\ down' = d
  /\ rpc' = "done"
  /\ IF ~DownstreamOk(d)
       THEN /\ resp' = Response(500, FALSE, DownstreamMessage(ErrorMarks(d)))
            /\ UNCHANGED <<calls, webhook>>
     ELSE /\ IF env.DISCORD_WEBHOOK_URL = "" THEN UNCHANGED <<calls, webhook>>
             ELSE IF wthrows THEN /\ webhook' = "threw"
                                  /\ calls' = calls
             ELSE /\ webhook' = "pending"
                  /\ calls' = Append(calls, "webhook")
          /\ resp' = AfterWebhook(webhook')
  /\ UNCHANGED <<env, req, verdict, pageVars, ipVars, geoVars, libVars>>

\* the webhook fetch settles after the response was returned
WebhookSettle(ok) ==
  /\ webhook = "pending"
  /\ webhook' = IF ok THEN "sent" ELSE "failed"
  /\ UNCHANGED <<env, rpc, req, calls, verdict, down, resp, pageVars, ipVars, geoVars, libVars>>

RelayIdle ==
  /\ env = [DISCORD_API_KEY |-> "secret", RECAPTCHA_SECRET_KEY |-> "recaptcha-secret",
            DISCORD_WEBHOOK_URL |-> ""]
  /\ rpc = "idle"
  /\ req = [auth |-> [prefix |-> "", rest |-> ""], json |-> TRUE, id |-> "",
            captcha |-> ""]
  /\ calls = <<>>
  /\ verdict = NoVerdict
  /\ down = NoDown
  /\ webhook = "none"
  /\ resp = NoResp

Init == InitPage /\ RelayIdle /\ GeoIdle /\ LibIdle

Next ==
  \/ \E o \in {"key", "nokey", "fail"} : ConfigResolve(o)
  \/ Advance
  \/ FireStart
  \/ \E a \in Attempts, d \in BOOLEAN : ScriptLoad(a, d)
  \/ \E a \in Attempts : ScriptError(a)
  \/ \E a \in Attempts : Ready(a)
  \/ \E th \in BOOLEAN : FireSettle(th)
  \/ \E a \in Attempts, x \in {"promise", "caught", "lost"} : Ready2(a, x)
  \/ \E a \in Attempts, tok \in {"", "03A-token"} : ExecuteResolve(a, tok)
  \/ \E a \in Attempts : ExecuteReject(a)
  \/ \E a \in Attempts, r \in Results : FetchResolve(a, r)
  \/ \E a \in Attempts : FetchFail(a)
  \/ FireAnalyzing
  \/ FireValidating
  \/ FireResult
  \/ FireNetError
  \/ FireSimAnalyzing
  \/ FireSimValidating
  \/ FireSimSuccess
  \/ FireCountdown
  \/ HandleRetry
  \/ HandleManualClose
  \/ Unmount

Spec == Init /\ [][Next]_vars

\* An expired timer is run by the event loop, and time passes.
FairTimers ==
  /\ WF_vars(Advance)
  /\ WF_vars(FireStart)
  /\ WF_vars(\E th \in BOOLEAN : FireSettle(th))
  /\ WF_vars(FireAnalyzing)
  /\ WF_vars(FireValidating)
  /\ WF_vars(FireResult)
  /\ WF_vars(FireNetError)
  /\ WF_vars(FireSimAnalyzing)
  /\ WF_vars(FireSimValidating)
  /\ WF_vars(FireSimSuccess)
  /\ WF_vars(FireCountdown)

\* The browser settles the configuration request and the script element,
\* and the challenge library calls the callbacks and settles the promise it
\* was given.  Nothing of the kind is assumed of the confirmation call.
FairBrowser ==
  /\ WF_vars(\E o \in {"key", "nokey", "fail"} : ConfigResolve(o))
  /\ WF_vars(\E a \in Attempts :
               ScriptError(a) \/ \E d \in BOOLEAN : ScriptLoad(a, d))
  /\ WF_vars(\E a \in Attempts : Ready(a))
  /\ WF_vars(\E a \in Attempts, x \in {"promise", "caught", "lost"} :
               Ready2(a, x))
  /\ WF_vars(\E a \in Attempts :
               ExecuteReject(a) \/ \E tok \in {"", "03A-token"} :
                                      ExecuteResolve(a, tok))

SpecLive == Spec /\ FairTimers /\ FairBrowser

\* retries followed while the IP collection effect runs beside the page
MaxIpRetry == 1

\* the page together with its IP collection effect
NextIp ==
  \/ Next /\ retryCount' <= MaxIpRetry
  \/ \E o \in {"ip", "noip", "fail"} : IpSettle(o)

SpecIp == Init /\ [][NextIp]_vars

NextRelay ==
  \/ Receive
  \/ \E v \in Verdicts : ProviderAnswer(v)
  \/ \E d \in Downs, w \in BOOLEAN : DownstreamAnswer(d, w)
  \/ \E ok \in BOOLEAN : WebhookSettle(ok)

SpecRelay == InitRelay /\ [][NextRelay]_vars

InitGeoOnly == PageIdle /\ RelayIdle /\ InitGeo /\ LibIdle

NextGeo ==
  \/ GeoFetch
  \/ GeoSettle
  \/ GeoCollect

SpecGeo == InitGeoOnly /\ [][NextGeo]_vars

InitGetIpOnly ==
  /\ PageIdle
  /\ RelayIdle
  /\ GeoIdle
  /\ InitGetIp
  /\ signal = <<>>
  /\ prints = <<>>
  /\ UaIdle

SpecGetIp == InitGetIpOnly /\ [][GetIp]_vars

InitHashOnly ==
  /\ PageIdle
  /\ RelayIdle
  /\ GeoIdle
  /\ headers = [cf |-> Absent, forwarded |-> Absent, real |-> Absent]
  /\ answer = NoAnswer
  /\ InitHash
  /\ UaIdle

SpecHash == InitHashOnly /\ [][Fingerprint]_vars

InitAgentOnly ==
  /\ PageIdle
  /\ RelayIdle
  /\ GeoIdle
  /\ headers = [cf |-> Absent, forwarded |-> Absent, real |-> Absent]
  /\ answer = NoAnswer
  /\ signal = <<>>
  /\ prints = <<>>
  /\ InitAgent

NextAgent ==
  \/ DetectBrowser
  \/ DetectDevice

SpecAgent == InitAgentOnly /\ [][NextAgent]_vars

\* ================================================================ claims
FlowKinds ==
  {"start", "onload", "onerror", "ready", "settle", "ready2", "token",
   "executeCatch", "analyzing", "validating", "result", "netError",
   "simAnalyzing", "simValidating", "simSuccess"}

FlowOrder ==
  { <<"loading", "analyzing">>, <<"analyzing", "validating">>,
    <<"validating", "success">>, <<"validating", "error">> }

\* C1: verifyToken starts in state loading, and from then on every change of
\* state within the same attempt is one of loading -> analyzing,
\* analyzing -> validating, validating -> success, validating -> error.
C1_StateOrder ==
  [][ /\ (issued' # issued => state = "loading")
      /\ (state' # state /\ retryCount' = retryCount /\ issued[retryCount] > 0
            => <<state, state'>> \in FlowOrder) ]_vars

C1_Witness ==
  /\ retryCount = 1
  /\ issued[1] = 1
  /\ state = "error"
  /\ ev.kind = "result"

\* C2: in the real flow, state success implies that the attempt received a
\* confirmation body with success = true, and an error set after the token
\* was obtained implies that the confirmation call has resolved or failed.
C2_TerminalAfterResult ==
  siteKey # DevKey =>
    /\ state = "success" =>
         /\ response[retryCount].got = "body"
         /\ response[retryCount].res.success
    /\ (state = "error" /\ issued[retryCount] > 0) =>
         response[retryCount].got # "none"

C2_Witness ==
  /\ siteKey = RealKey
  /\ state = "success"
  /\ response[retryCount].res.success

\* C3: a step of handleRetry is taken in state error and sets state to
\* loading, errorDetails to "" and retryCount to its old value plus 1.
C3_RetryResets ==
  [][ (ev' # ev /\ ev'.kind = "retry") =>
        /\ state = "error"
        /\ state' = "loading"
        /\ errorDetails' = ""
        /\ retryCount' = retryCount + 1 ]_vars

C3_Witness ==
  /\ ev.kind = "retry"
  /\ retryCount = 2
  /\ state = "loading"
  /\ errorDetails = ""

\* every pending timer and external completion of the flow belongs to the
\* current run of the effect
OnlyCurrentPending ==
  /\ \A i \in 1..Len(timers) :
       timers[i].kind \in FlowKinds => timers[i].att = retryCount
  /\ \A c \in BagToSet(pend) : c.kind = "config" \/ c.att = retryCount
  /\ \A a \in Attempts : a # retryCount => outstanding[a] = 0

\* C4: after a retry no continuation of an earlier attempt changes state,
\* errorDetails or countdown: none is pending any more when the retry is
\* taken, and a continuation that runs for an earlier attempt changes none
\* of the three.
C4_NoStaleEffect ==
  /\ [] OnlyCurrentPending
  /\ [][ (ev' # ev /\ ev'.kind \in FlowKinds /\ ev'.att < retryCount) =>
           UNCHANGED <<state, errorDetails, countdown>> ]_vars

C4_Witness ==
  /\ retryCount = 1
  /\ issued[0] = 1
  /\ state = "analyzing"
  /\ \E i \in 1..Len(timers) : timers[i].kind = "validating"

\* C5: a continuation of the flow effect that runs after its liveness flag
\* was cleared changes no state field, issues no request and injects no script.
C5_DeadIsNoop ==
  [][ (ev' # ev /\ ev'.kind \in FlowKinds /\ ~ev'.live) =>
        /\ UNCHANGED <<state, errorDetails, countdown, retryCount, issued,
                       scripts>>
        /\ Len(timers') <= Len(timers)
        /\ BagCardinality(pend') <= BagCardinality(pend) ]_vars

C5_Witness ==
  /\ unmounted
  /\ ev.kind = "result"
  /\ ~ev.live
  /\ state = "validating"

\* C6: every attempt has at most one confirmation request outstanding and
\* issues at most one in total.
C6_OneRequest ==
  \A a \in Attempts : issued[a] <= 1 /\ outstanding[a] <= 1

C6_Witness ==
  /\ issued[0] = 1
  /\ outstanding[0] = 0
  /\ issued[1] = 1
  /\ outstanding[1] = 1

\* C7: the downstream /verified request is sent only after the provider was
\* asked and answered success = true with a score of at least 0.5.
C7_VerifiedAfterVerdict ==
  \A i \in 1..Len(calls) :
    calls[i] = "verified" =>
      /\ \E j \in 1..(i - 1) : calls[j] = "siteverify"
      /\ verdict.net = "answer"
      /\ verdict.ok
      /\ verdict.success
      /\ verdict.score.present
      /\ verdict.score.value >= threshold

C7_Witness ==
  /\ calls = <<"siteverify", "verified">>
  /\ verdict.score.value = 900000

\* C8: once the provider accepted the token, a score of 0.5 or more is passed
\* on to the downstream call, and a score below 0.5 (a missing score counts
\* as 0) is answered with HTTP 400 and "Verification score too low".
C8_ThresholdBoundary ==
  (verdict.net = "answer" /\ verdict.ok /\ verdict.json /\ verdict.success) =>
    LET s == IF verdict.score.present THEN verdict.score.value ELSE 0
    IN /\ s >= 500000 =>
            /\ \E i \in 1..Len(calls) : calls[i] = "verified"
            /\ resp.error # "Verification score too low"
       /\ s < 500000 =>
            /\ resp = Response(400, FALSE, "Verification score too low")
            /\ \A i \in 1..Len(calls) : calls[i] # "verified"

C8_Witness ==
  /\ verdict.success
  /\ verdict.score = Score(500000)
  /\ rpc = "downstream"

\* C9: the relay answers success = true only if the downstream call gave a 2xx
\* response with success = true in its body before the timeout; a timeout,
\* a non-2xx response or a body with success = false gives success = false
\* with HTTP 500.
C9_DownstreamDecides ==
  LET accepted == /\ down.kind = "response"
                  /\ down.status >= 200 /\ down.status <= 299
                  /\ down.json
                  /\ down.success
  IN /\ resp.success => accepted
     /\ (rpc = "done" /\ down.kind # "none" /\ ~accepted) =>
          (resp.status = 500 /\ ~resp.success)

C9_Witness ==
  /\ rpc = "done"
  /\ down.kind = "response"
  /\ down.status = 200
  /\ down.json
  /\ ~down.success
  /\ resp.status = 500

\* the fault that decides the response, read off the inputs
InputFault ==
  /\ env.DISCORD_API_KEY # ""
  /\ Authorized(req.auth, env.DISCORD_API_KEY)
  /\ req.json
  /\ (req.captcha = "" \/ req.id = "")

AuthFault ==
  /\ env.DISCORD_API_KEY # ""
  /\ ~Authorized(req.auth, env.DISCORD_API_KEY)

ConfigFault ==
  \/ env.DISCORD_API_KEY = ""
  \/ /\ Authorized(req.auth, env.DISCORD_API_KEY)
     /\ req.json /\ req.captcha # "" /\ req.id # ""
     /\ env.RECAPTCHA_SECRET_KEY = ""
  \/ /\ verdict.net = "answer" /\ verdict.ok /\ verdict.json
     /\ ~verdict.success
     /\ verdict.codes \cap {"missing-input-secret", "invalid-input-secret"} # {}

DownstreamFault ==
  /\ down.kind # "none"
  /\ ~(down.kind = "response" /\ HttpOk(down.status) /\ down.json /\ down.success)

\* C10: the relay answers an input fault with 400, an auth fault with 401,
\* a configuration fault or a downstream fault with 500.
C10_StatusByFault ==
  rpc = "done" =>
    /\ InputFault => resp.status = 400
    /\ AuthFault => resp.status = 401
    /\ ConfigFault => resp.status = 500
    /\ DownstreamFault => resp.status = 500

\* C11: once the downstream call was accepted the relay answers 200 with
\* success true whether the webhook is not configured, throws while it is
\* built, is still pending, was delivered or failed; and no later outcome of
\* the webhook call changes the response.
C11_WebhookNeverChangesResponse ==
  /\ [](rpc = "done" /\ down # NoDown /\ DownstreamOk(down)
          => resp = Response(200, TRUE, ""))
  /\ [][webhook' # webhook /\ rpc = "done" => resp' = resp]_vars

C11_Witness ==
  /\ rpc = "done"
  /\ DownstreamOk(down)
  /\ webhook = "threw"
  /\ resp.success

\* the services whose call succeeds: 2xx, a body that parses, a parser
\* that returns
Succeeding == {i \in Providers : gOut[i] \in {"ok", "okNoZone"}}

FirstSucceeding == CHOOSE i \in Succeeding : \A j \in Succeeding : i <= j

\* C12: when some service succeeds, no service after the first succeeding
\* one is ever fetched, and getIPLocation returns what the first succeeding
\* service reported, having fetched exactly the services up to it, in order.
C12_FirstSuccessWins ==
  Succeeding # {} =>
    /\ \A k \in 1..Len(gInvoked) : gInvoked[k] <= FirstSucceeding
    /\ location.status # "none" =>
         /\ location.status = "returned"
         /\ location.value.country =
              <<"country1", "country2", "country3">>[FirstSucceeding]
         /\ location.value.city =
              <<"city1", "city2", "city3">>[FirstSucceeding]
         /\ gInvoked = [k \in 1..FirstSucceeding |-> k]

C12_Witness ==
  /\ gOut = <<"status", "ok", "ok">>
  /\ gIdx = 0
  /\ location.value.country = "country2"
  /\ gInvoked = <<1, 2>>
  /\ userData = location

\* C13: getIPLocation never rejects; when every service fails it returns the
\* local timezone with country, region and city "Unknown"; collectUserData
\* is never stuck before it has set a location, and the location it sets is
\* a returned one.
C13_FallbackNeverThrows ==
  /\ location.status \in {"none", "returned"}
  /\ Succeeding = {} /\ location.status # "none" =>
       location.value = [timezone |-> "local-zone", country |-> "Unknown",
                         region |-> "Unknown", city |-> "Unknown"]
  /\ userData.status = "none" => ENABLED NextGeo
  /\ userData.status # "none" =>
       userData.status = "returned" /\ userData.value = location.value

C13_Witness ==
  /\ gOut = <<"timeout", "status", "adapter">>
  /\ gInvoked = <<1, 2, 3>>
  /\ userData.status = "returned"
  /\ userData.value.country = "Unknown"
  /\ userData.value.timezone = LocalZone

\* the outcomes the resolver has to treat as a failed service
Failing == {"timeout", "rejected", "status", "badjson", "adapter"}

\* C14: at most one service is being fetched at any time; the services are
\* fetched in list order without gaps; a service that timed out, was
\* rejected, answered non-2xx or whose body or parser threw is followed by
\* the next service of the list (by the fallback after the last one), and a
\* service is fetched only when every one before it failed.
C14_OneAtATimeInOrder ==
  /\ [](/\ Cardinality(gInflight) <= 1
        /\ gInvoked = [k \in 1..Len(gInvoked) |-> k]
        /\ \A j \in Providers :
             (j <= Len(gInvoked) /\ j \notin gInflight /\ gOut[j] \in Failing)
               => IF j < Len(Services)
                    THEN gIdx = j + 1 \/ Len(gInvoked) > j
                    ELSE gIdx = 0 /\ location.value.country = "Unknown")
  /\ [][gInvoked' # gInvoked =>
          /\ gInflight = {}
          /\ gInvoked' = Append(gInvoked, Len(gInvoked) + 1)
          /\ \A j \in 1..Len(gInvoked) : gOut[j] \in Failing]_vars

C14_Witness ==
  /\ gOut = <<"timeout", "badjson", "ok">>
  /\ gInvoked = <<1, 2, 3>>
  /\ gInflight = {3}

\* C15: once every service of collectUserIP has been tried without yielding
\* an address, /api/get-ip is among the URLs fetched.
C15_FallbackQueried ==
  (/\ Len(ipCalls) >= Len(IpServices)
   /\ ipIdx \notin 1..Len(IpServices)
   /\ userIP = "")
    => \E k \in 1..Len(ipCalls) : ipCalls[k] = "/api/get-ip"

\* C16: once the configuration request has completed without a site key,
\* the mounted page is either in development simulation or in state error.
C16_NoKeyLeavesLoading ==
  (configLoaded /\ siteKey # RealKey /\ ~unmounted)
    => siteKey = DevKey \/ state = "error"

\* C17: whenever the mounted page has its configuration and a key, the
\* attempt under way eventually reaches success or error.
C17_EveryAttemptTerminates ==
  (configLoaded /\ siteKey # NoKey /\ ~unmounted)
    ~> (state \in {"success", "error"} \/ unmounted)

\* C18: on the mounted page the retry action can be taken exactly when state
\* is error (up to the explored number of retries); and when the result
\* timer of a live run fires for a body with success false and the relay's
\* score message, state becomes error with that message as errorDetails.
C18_RetryIffError ==
  /\ []((state = "error" /\ ~unmounted /\ retryCount < MaxRetry)
          => ENABLED HandleRetry)
  /\ []((ENABLED HandleRetry) => state = "error")
  /\ [][(/\ ev' # ev
          /\ ev'.kind = "result"
          /\ ev'.live
          /\ HasExpired
          /\ ~timers[FirstExpired].res.success
          /\ timers[FirstExpired].res.error = "Verification score too low")
         => /\ state' = "error"
            /\ errorDetails' = "Verification score too low"
            /\ RetryAvailable']_vars

C18_Witness ==
  /\ state = "error"
  /\ errorDetails = "Verification score too low"
  /\ ev.kind = "result"
  /\ response[retryCount].res.error = "Verification score too low"
  /\ ENABLED HandleRetry

ChallengeOrder == <<"load", "ready", "settle", "execute">>

\* C19: for every run, the milestones reached so far are a prefix of: load
\* event, readiness callback, settle timer, execute; execute has not been
\* invoked while the run's settle timer is still pending; and the settle
\* timer is set by the readiness callback with the full 1000 ms to run.
C19_ExecuteAfterLoadReadySettle ==
  /\ [](\A a \in Attempts :
          /\ Len(steps[a]) <= Len(ChallengeOrder)
          /\ steps[a] = SubSeq(ChallengeOrder, 1, Len(steps[a]))
          /\ \A i \in 1..Len(timers) :
               (timers[i].kind = "settle" /\ timers[i].att = a)
                 => /\ steps[a] = <<"load", "ready">>
                    /\ timers[i].rem <= 1000)
  /\ [][\A a \in Attempts :
          (steps'[a] # steps[a] /\ Len(steps'[a]) = 2 /\ isComponentMounted[a])
            => \E i \in 1..Len(timers') :
                 /\ timers'[i].kind = "settle"
                 /\ timers'[i].att = a
                 /\ timers'[i].rem = 1000]_vars

C19_Witness ==
  /\ steps[retryCount] = <<"load", "ready", "settle", "execute">>
  /\ BagIn(Pending("execute", retryCount), pend)

\* C20: the document never holds more than one challenge script element;
\* handleRetry leaves no script element and no grecaptcha handle; and a
\* script element is injected only into a document that holds none and has
\* no handle.
C20_OneScriptElement ==
  /\ [](Cardinality(scripts) <= 1)
  /\ [][(ev' # ev /\ ev'.kind = "retry")
          => scripts' = {} /\ ~grecaptcha']_vars
  /\ [][(scripts' # scripts /\ scripts' # {})
          => /\ scripts = {}
             /\ ~grecaptcha
             /\ scripts' = {retryCount}]_vars

C20_Witness ==
  /\ retryCount = 1
  /\ scripts = {1}
  /\ steps[0] # <<>>
  /\ ev.kind = "start"

PreCallFaults ==
  {"Failed to load reCAPTCHA script", "reCAPTCHA execution failed: ...",
   "Failed to generate reCAPTCHA token"}

\* C21: for a live run, script.onerror, a rejected execute promise and an
\* empty token each set state error, each with its own one of three error
\* details, without issuing the confirmation call; and a run that shows one
\* of these details has issued no confirmation call at all.
C21_DistinctPreCallFaults ==
  /\ [][(ev' # ev /\ ev'.live) =>
          /\ ev'.kind = "onerror" =>
               /\ state' = "error"
               /\ errorDetails' = "Failed to load reCAPTCHA script"
               /\ issued' = issued
          /\ ev'.kind = "executeCatch" =>
               /\ state' = "error"
               /\ errorDetails' = "reCAPTCHA execution failed: ..."
               /\ issued' = issued
          /\ (ev'.kind = "token"
               /\ tokens'[ev'.att][Len(tokens'[ev'.att])] = "") =>
               /\ state' = "error"
               /\ errorDetails' = "Failed to generate reCAPTCHA token"
               /\ issued' = issued]_vars
  /\ []((state = "error" /\ errorDetails \in PreCallFaults)
          => issued[retryCount] = 0 /\ response[retryCount].got = "none")

C21_Witness ==
  /\ state = "error"
  /\ errorDetails = "Failed to generate reCAPTCHA token"
  /\ tokens[retryCount] = <<"">>
  /\ issued[retryCount] = 0
  /\ retryCount = 1
  /\ steps[0] = <<>>

SimTimerAt(k, d) ==
  \E i \in 1..Len(timers) : timers[i].kind = k /\ timers[i].rem = d

\* C22: with the site key "development-mode" no script element is injected,
\* no challenge milestone is reached, no token is received and no
\* confirmation call is issued; the state is never error and changes only
\* loading -> analyzing -> validating -> success; the start timer sets the
\* three timers to 1500, 3000 and 4500 ms.
C22_DevelopmentSimulation ==
  /\ [](siteKey = DevKey =>
          /\ scripts = {}
          /\ ~grecaptcha
          /\ state # "error"
          /\ \A a \in Attempts :
               /\ issued[a] = 0
               /\ tokens[a] = <<>>
               /\ steps[a] = <<>>
          /\ \A c \in BagToSet(pend) : c.kind = "config")
  /\ [][(siteKey = DevKey /\ state' # state) =>
          <<state, state'>> \in {<<"loading", "analyzing">>,
                                 <<"analyzing", "validating">>,
                                 <<"validating", "success">>}]_vars
  /\ [][(siteKey = DevKey /\ ev' # ev /\ ev'.kind = "start" /\ ev'.live) =>
          /\ SimTimerAt("simAnalyzing", 1500)'
          /\ SimTimerAt("simValidating", 3000)'
          /\ SimTimerAt("simSuccess", 4500)']_vars

C22_Witness ==
  /\ siteKey = DevKey
  /\ state = "success"
  /\ ev.kind = "simSuccess"
  /\ timers # <<>>

\* the countdown part of C23: 5 on entering success, within 0..5, changed
\* only in success and only by minus 1, by a timer set to 1000 ms
CountdownRule ==
  /\ [](countdown \in 0..5)
  /\ [][(state # "success" /\ state' = "success") => countdown' = 5]_vars
  /\ [][countdown' # countdown =>
          /\ state = "success"
          /\ state' = "success"
          /\ countdown' = countdown - 1
          /\ ev'.kind = "countdown"]_vars
  /\ [](\A i \in 1..Len(timers) :
          timers[i].kind = "countdown" =>
            /\ state = "success"
            /\ countdown > 0
            /\ timers[i].rem <= 1000)
  /\ [][(\E i \in 1..Len(timers') : timers'[i].kind = "countdown")
         /\ ~(\E i \in 1..Len(timers) : timers[i].kind = "countdown")
          => timers'[Len(timers')].rem = 1000]_vars
  /\ []((state = "success" /\ countdown = 0) => closed)

\* C23 as stated: the countdown rule, and window.close is called when and
\* only when state is success and countdown is 0.
C23_CloseOnlyAtZero ==
  /\ CountdownRule
  /\ [][(closed' # closed) =>
          closed' /\ state' = "success" /\ countdown' = 0]_vars

\* C23 amended: the countdown rule; window.close is called only in success,
\* by the countdown effect exactly when the countdown reaches 0, and
\* otherwise only by the Continue button, which changes nothing else.
C23_CloseAtZeroOrButton ==
  /\ CountdownRule
  /\ [][(closed' # closed) =>
          /\ closed'
          /\ state' = "success"
          /\ \/ countdown' = 0 /\ (state # "success" \/ countdown # 0)
             \/ /\ countdown' > 0
                /\ UNCHANGED <<state, errorDetails, countdown, timers, ev>>]_vars

C23_Witness ==
  /\ state = "success"
  /\ countdown = 0
  /\ closed
  /\ ev.kind = "countdown"
  /\ siteKey = RealKey

\* C24: errorDetails is the empty string unless state is error.
C24_DetailsOnlyInError == errorDetails # "" => state = "error"

\* e is the first comma-separated entry of v, without surrounding blanks
IsFirstEntry(e, v) ==
  LET commas == {i \in 1..Len(v) : v[i] = ","}
      k == IF commas = {} THEN Len(v) + 1
           ELSE CHOOSE i \in commas : \A j \in commas : i <= j
      part == SubSeq(v, 1, k - 1)
  IN \E i \in 1..(Len(part) + 1), j \in 0..Len(part) :
       /\ e = SubSeq(part, i, j)
       /\ \A m \in 1..(i - 1) : part[m] = " "
       /\ \A m \in (j + 1)..Len(part) : part[m] = " "
       /\ e # <<>> => e[1] # " " /\ e[Len(e)] # " "

\* ip is raw without a leading "::ffff:"
IsUnmapped(ip, raw) ==
  IF raw # <<>> /\ raw[1] = "::ffff:" THEN ip = SubSeq(raw, 2, Len(raw))
  ELSE ip = raw

GetIpSources == {"cloudflare", "forwarded", "real-ip", "unknown"}

\* C25: the answer carries cf-connecting-ip if it has a value, else the
\* first entry of x-forwarded-for if it has one, else x-real-ip if it has a
\* value, else "unknown", without a leading "::ffff:", and a source field
\* (a header with an empty value, or an empty first entry, counts as not
\* present).
C25_HeaderPrecedence ==
  answer.status = 200 =>
    /\ answer.source \in GetIpSources
    /\ \E raw \in {headers.cf.val, headers.real.val, <<"unknown">>}
                 \cup {SubSeq(headers.forwarded.val, i, j) :
                         i \in 1..(Len(headers.forwarded.val) + 1),
                         j \in 0..Len(headers.forwarded.val)} :
         /\ IsUnmapped(answer.ip, raw)
         /\ raw # <<>>
         /\ IF headers.cf.val # <<>> THEN raw = headers.cf.val
            ELSE IF \E e \in {SubSeq(headers.forwarded.val, i, j) :
                                i \in 1..(Len(headers.forwarded.val) + 1),
                                j \in 0..Len(headers.forwarded.val)} :
                      e # <<>> /\ IsFirstEntry(e, headers.forwarded.val)
              THEN IsFirstEntry(raw, headers.forwarded.val)
            ELSE IF headers.real.val # <<>> THEN raw = headers.real.val
            ELSE raw = <<"unknown">>

C25_Witness ==
  /\ answer.status = 200
  /\ headers.cf = Header(<<>>)
  /\ headers.forwarded.val = <<" ", "::ffff:", "198.51.100.2">>
  /\ headers.real.val = <<"192.0.2.9">>
  /\ answer.ip = <<"198.51.100.2">>
  /\ answer.source = "forwarded"

\* C26: two calls of the hash on the same string give the same result; the
\* empty string gives "0"; the value printed is the magnitude of a 32-bit
\* integer, so it carries no sign ("A" gives "41", "A|" gives "85b", five
\* times U+FFFF wraps to a negative integer and gives "704d8fc1").
C26_FingerprintPure ==
  /\ Len(prints) = 2 => prints[1] = prints[2]
  /\ \A k \in 1..Len(prints) :
       /\ signal = <<>> => prints[k].text = "0"
       /\ signal = <<65>> => prints[k].text = "41"
       /\ signal = <<65, 124>> => prints[k].text = "85b"
       /\ signal = <<65535, 65535, 65535, 65535, 65535>>
            => Negative(prints[k].hash) /\ prints[k].text = "704d8fc1"
       /\ Abs(prints[k].hash).hi <= 32768
       /\ Abs(prints[k].hash).hi = 32768 => Abs(prints[k].hash).lo = 0

C26_Witness ==
  /\ signal = <<>>
  /\ Len(prints) = 2
  /\ prints[2].text = "0"

\* C27: after unmount no continuation applies a state update (each checks
\* the liveness flag first, or was cleared); and the unmount step leaves no
\* pending timer and no liveness flag set.
C27_GuardedAndCleared ==
  /\ [][unmounted =>
          UNCHANGED <<state, errorDetails, countdown, siteKey,
                      configLoaded>>]_vars
  /\ [][(~unmounted /\ unmounted') =>
          /\ timers' = <<>>
          /\ \A a \in Attempts : ~isComponentMounted'[a]]_vars

\* C28: the terminal state is reached at the later of the 5000 ms delay and
\* the completion of the confirmation call: once the call of the running
\* attempt has completed and more than 5000 ms have passed since verifyToken
\* was entered, the state is success or error.
C28_TerminalAtLaterOfDelayAndCall ==
  ( /\ ~unmounted
    /\ isComponentMounted[retryCount]
    /\ issued[retryCount] > 0
    /\ response[retryCount] # NoResponse
    /\ elapsed > ResultDelay )
  => state \in {"success", "error"}

\* C29: when execution is reached while the library handle is absent (the
\* script of the running attempt has loaded, window.grecaptcha is missing),
\* the state is error.
C29_AbsentHandleIsError ==
  ( /\ ~unmounted
    /\ isComponentMounted[retryCount]
    /\ steps[retryCount] = <<"load">>
    /\ ~grecaptcha )
  => state = "error"

\* C30: the message of a downstream failure is decided by its cause alone:
\* a timeout, a refused connection, any 5xx response and any 4xx response
\* each give the message of that cause, whatever text the downstream
\* response body holds.
C30_MessageByCause ==
  (rpc = "done" /\ DownstreamFault) =>
    /\ down.kind = "timeout" =>
         resp.error = "Discord server is taking too long to respond. Please try again."
    /\ down.kind = "refused" =>
         resp.error = "Cannot connect to Discord server. Please try again later."
    /\ (down.kind = "response" /\ 500 <= down.status /\ down.status <= 599) =>
         resp.error = "Discord server encountered an error. Please try again."
    /\ (down.kind = "response" /\ 400 <= down.status /\ down.status <= 499) =>
         resp.error = "Invalid verification request. Please try again."

\* 31 * h + c reduced to 32 bits
Times31Plus(h, c) ==
  LET l == h.lo * 31 + c
  IN Word((h.hi * 31 + (l \div 65536)) % 65536, l % 65536)

RECURSIVE Rolling31(_, _)
Rolling31(h, str) ==
  IF str = <<>> THEN h ELSE Rolling31(Times31Plus(h, Head(str)), Tail(str))

\* C31: the fingerprint is the rolling hash h := 31 * h + charCode reduced
\* to 32 bits, written as the unsigned 32-bit hexadecimal value of the final
\* hash (so that different final hashes give different texts).
C31_UnsignedHexOfRollingHash ==
  \A k \in 1..Len(prints) :
    /\ prints[k].hash = Rolling31(Zero, signal)
    /\ prints[k].text = ToHex(prints[k].hash)

\* C32: an agent string that holds the Chromium token and a vendor token
\* ("Edg" or "OPR") is classified as the vendor browser, never as Chrome.
C32_VendorBeforeChromium ==
  ( /\ browser.status = "set"
    /\ Includes(agent, "Chrome")
    /\ Includes(agent, "Edg") \/ Includes(agent, "OPR") )
  => /\ browser.name # "Chrome"
     /\ ~Includes(agent, "Firefox") => browser.name \in {"Edge", "Opera"}

\* C33: for every agent string exactly one of isMobile, isTablet, isDesktop
\* is true, type names that class, and isTouchDevice is the touch capability
\* of the window, whatever the class.
C33_OneDeviceClass ==
  device.status = "set" =>
    /\ Cardinality({f \in {"mobile", "tablet", "desktop"} :
                      \/ f = "mobile" /\ device.isMobile
                      \/ f = "tablet" /\ device.isTablet
                      \/ f = "desktop" /\ device.isDesktop}) = 1
    /\ device.type = "mobile" <=> device.isMobile
    /\ device.type = "tablet" <=> device.isTablet
    /\ device.type = "desktop" <=> device.isDesktop
    /\ device.isTouchDevice = (touch.ontouchstart \/ touch.maxTouchPoints > 0)

\* an agent that matches both the mobile and the tablet pattern, on a window
\* whose only sign of touch is the ontouchstart property
C33_Witness ==
  /\ device.status = "set"
  /\ {"Android 14", "iPad"} \subseteq agent
  /\ device.type = "mobile"
  /\ touch.ontouchstart /\ touch.maxTouchPoints = 0
  /\ device.isTouchDevice

\* C34: once the state is success, no step of the page changes the state or
\* the retry counter.
C34_SuccessAbsorbing ==
  [][state = "success" =>
       /\ state' = "success"
       /\ retryCount' = retryCount]_vars

\* the page went on working in success: the countdown ran down and the
\* window was closed, after a retry
C34_Witness ==
  /\ state = "success"
  /\ retryCount > 0
  /\ countdown = 0
  /\ closed

\* C39: the retry counter is changed by handleRetry only, which adds one to
\* it; every other step leaves it as it is, so it never decreases and
\* counts the retries performed.
C39_OnlyRetryCounts ==
  /\ [][retryCount' # retryCount => ev'.kind = "retry" /\ ev' # ev]_vars
  /\ [][(ev'.kind = "retry" /\ ev' # ev) => retryCount' = retryCount + 1]_vars
  /\ [][retryCount' >= retryCount]_vars

\* a second retry was performed and the flow of the third attempt ran on
C39_Witness ==
  /\ retryCount = 2
  /\ ev.kind = "validating"
  /\ ev.att = 2

\* no call has left the relay
NoOutboundCall ==
  /\ calls = <<>>
  /\ verdict = NoVerdict
  /\ down = NoDown
  /\ webhook = "none"

\* the Authorization header is missing, is not "Bearer <token>", or its
\* token is not DISCORD_API_KEY
BadAuthorization ==
  \/ req.auth.prefix # "Bearer "
  \/ req.auth.rest # env.DISCORD_API_KEY

\* C35: a request whose Authorization header is missing, is not of the form
\* "Bearer <token>" or carries a token different from DISCORD_API_KEY is
\* answered with 401, and no outbound call is made for it.
C35_UnauthorizedIs401 ==
  /\ BadAuthorization => NoOutboundCall
  /\ (rpc = "done" /\ BadAuthorization) => resp.status = 401

\* C35 as the code has it: such a request causes no outbound call; it is
\* answered with 401 when DISCORD_API_KEY is set and with 500 when it is not.
C35_UnauthorizedNeverCallsOut ==
  /\ BadAuthorization => NoOutboundCall
  /\ (rpc = "done" /\ BadAuthorization) =>
       /\ ~resp.success
       /\ resp.status = IF env.DISCORD_API_KEY = "" THEN 500 ELSE 401

\* a complete request with the wrong token, all secrets configured
C35_Witness ==
  /\ rpc = "done"
  /\ env.DISCORD_API_KEY # ""
  /\ env.RECAPTCHA_SECRET_KEY # ""
  /\ req.auth = [prefix |-> "Bearer ", rest |-> "wrong"]
  /\ req.json /\ req.id # "" /\ req.captcha # ""
  /\ resp.status = 401

\* C36: the confirmation call does not wait for IP discovery, and its
\* user_ip is the address discovery had stored when the call was issued,
\* "unknown" when it had stored none; what discovery does later does not
\* change the body that was sent.
C36_CallNeverWaitsForIp ==
  /\ [][\A a \in Attempts :
          IF issued'[a] # issued[a]
            THEN sentIp'[a] = IF userIP # "" THEN userIP ELSE "unknown"
            ELSE sentIp'[a] = sentIp[a]]_vars
  /\ [](\A a \in Attempts : issued[a] > 0 <=> sentIp[a] # "")

\* the call of the first attempt left with "unknown" while discovery was
\* still awaiting a service, and discovery stored the address afterwards
C36_Witness ==
  /\ issued[0] > 0
  /\ sentIp[0] = "unknown"
  /\ userIP = Address
  /\ retryCount = 1
  /\ sentIp[1] = Address

\* C37: the source field names the header the ip was taken from:
\* "cloudflare" only with the value of cf-connecting-ip, "forwarded" only
\* with the first entry of x-forwarded-for, "real-ip" only with the value of
\* x-real-ip, "unknown" only with the ip "unknown" (the ip without a leading
\* "::ffff:" in each case).
C37_SourceNamesHeader ==
  answer.status = 200 =>
    /\ answer.source = "cloudflare" => IsUnmapped(answer.ip, headers.cf.val)
    /\ answer.source = "forwarded" =>
         \E i \in 1..(Len(headers.forwarded.val) + 1),
            j \in 0..Len(headers.forwarded.val) :
           /\ IsFirstEntry(SubSeq(headers.forwarded.val, i, j),
                           headers.forwarded.val)
           /\ IsUnmapped(answer.ip, SubSeq(headers.forwarded.val, i, j))
    /\ answer.source = "real-ip" => IsUnmapped(answer.ip, headers.real.val)
    /\ answer.source = "unknown" => answer.ip = <<"unknown">>

\* the checks of the relay in the order of the claim, each with the
\* condition under which it fails, its status and its message ("" for a
\* message the check chooses by sub-cause)
RelayChecks ==
  << [fails |-> env.DISCORD_API_KEY = "", status |-> 500,
      error |-> "Server configuration error"],
     [fails |-> BadAuthorization, status |-> 401, error |-> "Unauthorized"],
     [fails |-> ~req.json, status |-> 500, error |-> "Internal server error"],
     [fails |-> req.captcha = "", status |-> 400,
      error |-> "No captcha token provided"],
     [fails |-> req.id = "", status |-> 400, error |-> "No user ID provided"],
     [fails |-> env.RECAPTCHA_SECRET_KEY = "", status |-> 500,
      error |-> "Server configuration error"],
     [fails |-> verdict.net # "answer" \/ ~verdict.ok \/ ~verdict.json,
      status |-> 500, error |-> "Internal server error"],
     [fails |-> ~verdict.success, status |-> 400, error |-> ""],
     [fails |-> (IF verdict.score.present THEN verdict.score.value ELSE 0)
                   < threshold,
      status |-> 400, error |-> "Verification score too low"],
     [fails |-> DownstreamFault \/ down = NoDown, status |-> 500,
      error |-> ""] >>

\* the calls that have left the relay when check k is the first to fail
CallsBefore(k) ==
  IF k <= 6 THEN <<>>
  ELSE IF k <= 9 THEN <<"siteverify">>
  ELSE <<"siteverify", "verified">>

\* C38: the relay ends every request with a response (no exception
\* escapes), and the response is the one of the first check that fails, in
\* the order server key, authorization, body, token, id, provider secret,
\* provider verdict, score, downstream call; the steps behind the failing
\* check are not run.  With no failing check the answer is 200.
C38_FirstFailingCheckAnswers ==
  rpc = "done" =>
    /\ resp # NoResp
    /\ resp.status \in {200, 400, 401, 500}
    /\ \A k \in 1..Len(RelayChecks) :
         (RelayChecks[k].fails /\ \A j \in 1..(k - 1) : ~RelayChecks[j].fails)
           => /\ resp.status = RelayChecks[k].status
              /\ ~resp.success
              /\ RelayChecks[k].error # "" => resp.error = RelayChecks[k].error
              /\ resp.error # ""
              /\ calls = CallsBefore(k)
    /\ (\A k \in 1..Len(RelayChecks) : ~RelayChecks[k].fails)
         => resp.status = 200 /\ resp.success

\* a request that lacks both the token and the id
C38_Witness ==
  /\ rpc = "done"
  /\ env.DISCORD_API_KEY # ""
  /\ ~BadAuthorization
  /\ req.json
  /\ req.captcha = ""
  /\ req.id = ""
  /\ resp = Response(400, FALSE, "No captcha token provided")

====
